---------------------------- MODULE Spec2Model ----------------------------
(***************************************************************************)
(* A model of the qBittorrent Web API v2 client (src/src/qbt.js): the      *)
(* login handshake of connect, the capability handle it returns, the       *)
(* wiring of each handle method to its request function, performRequest    *)
(* with the events of the underlying HTTP transport, and the plainify      *)
(* marshaler.                                                              *)
(*                                                                         *)
(* Texts are sequences of atoms.  An atom is a TLA+ string holding either  *)
(* one character that the marshaler's regular expressions treat specially  *)
(* or a run of characters they do not (a parameter name, a number).        *)
(***************************************************************************)
EXTENDS Integers, Sequences, FiniteSets, TLC

VARIABLES calls, handle, console

vars == <<calls, handle, console>>

-----------------------------------------------------------------------------
(* Bounds of the model *)

\* concurrent capability calls on the handle
MaxCalls == 2
\* 'data' events delivered for one response
MaxChunks == 2

-----------------------------------------------------------------------------
(* JavaScript values *)

Undef == [t |-> "undefined", b |-> FALSE, n |-> 0, s |-> <<>>, o |-> <<>>]
Null == [t |-> "null", b |-> FALSE, n |-> 0, s |-> <<>>, o |-> <<>>]
B(x) == [t |-> "boolean", b |-> x, n |-> 0, s |-> <<>>, o |-> <<>>]
N(x) == [t |-> "number", b |-> FALSE, n |-> x, s |-> <<>>, o |-> <<>>]
S(x) == [t |-> "string", b |-> FALSE, n |-> 0, s |-> x, o |-> <<>>]
O(x) == [t |-> "object", b |-> FALSE, n |-> 0, s |-> <<>>, o |-> <<x>>]

\* the truthiness test of `if (x)` and `a || b`
Truthy(v) ==
  CASE v.t = "undefined" -> FALSE
    [] v.t = "null" -> FALSE
    [] v.t = "boolean" -> v.b
    [] v.t = "number" -> v.n # 0
    [] v.t = "string" -> v.s # <<>>
    [] OTHER -> TRUE

\* String(v), the conversion encodeURI applies to its argument
ToStr(v) ==
  CASE v.t = "undefined" -> <<"undefined">>
    [] v.t = "null" -> <<"null">>
    [] v.t = "boolean" -> IF v.b THEN <<"true">> ELSE <<"false">>
    [] v.t = "number" -> <<ToString(v.n)>>
    [] v.t = "string" -> v.s
    [] OTHER -> <<"[object Object]">>

RECURSIVE Flat(_)
\* the string a text stands for
Flat(text) == IF text = <<>> THEN "" ELSE Head(text) \o Flat(Tail(text))

\* the characters encodeURI escapes, among those the model draws values from;
\* it leaves the reserved characters ; / ? : @ & = + $ , # as they are
URIEscape ==
  " " :> "%20" @@ "\"" :> "%22" @@ "%" :> "%25" @@ "{" :> "%7B" @@ "}" :> "%7D"
  @@ "\\" :> "%5C" @@ "é" :> "%C3%A9"

RECURSIVE encodeURIText(_)
encodeURIText(text) ==
  IF text = <<>> THEN <<>>
  ELSE (IF Head(text) \in DOMAIN URIEscape THEN <<URIEscape[Head(text)]>>
        ELSE <<Head(text)>>) \o encodeURIText(Tail(text))

encodeURI(v) == S(encodeURIText(ToStr(v)))

-----------------------------------------------------------------------------
(* plainify: JSON.stringify followed by two global regex replacements *)

RECURSIVE JSONQuote(_)
JSONQuote(text) ==
  IF text = <<>> THEN <<>>
  ELSE (IF Head(text) \in {"\"", "\\"} THEN <<"\\", Head(text)>>
        ELSE <<Head(text)>>) \o JSONQuote(Tail(text))

\* JSON.stringify of a property value (undefined is handled by the caller)
JSONValue(v) ==
  CASE v.t = "string" -> <<"\"">> \o JSONQuote(v.s) \o <<"\"">>
    [] v.t = "number" -> <<ToString(v.n)>>
    [] v.t = "boolean" -> IF v.b THEN <<"true">> ELSE <<"false">>
    [] v.t = "null" -> <<"null">>
    [] OTHER -> <<"{", "}">>

RECURSIVE JSONMembers(_, _)
\* the members of an object, a property whose value is undefined left out
JSONMembers(props, first) ==
  IF props = <<>> THEN <<>>
  ELSE IF Head(props).val.t = "undefined" THEN JSONMembers(Tail(props), first)
  ELSE (IF first THEN <<>> ELSE <<",">>)
       \o <<"\"", Head(props).key, "\"", ":">> \o JSONValue(Head(props).val)
       \o JSONMembers(Tail(props), FALSE)

JSONStringify(props) == <<"{">> \o JSONMembers(props, TRUE) \o <<"}">>

\* index of the first atom a at or after position i of text, 0 when none
IndexFrom(text, a, i) ==
  IF \E k \in i..Len(text) : text[k] = a
  THEN CHOOSE k \in i..Len(text) : text[k] = a /\ \A j \in i..(k - 1) : text[j] # a
  ELSE 0

\* StripBraces taking off the braces that enclose the object and no other
StripOuterBraces(text) == SubSeq(text, 2, Len(text) - 1)

RECURSIVE StripBraces(_)
\* str.replace(/{([^}]*)}/g, '$1')
StripBraces(text) ==
  LET i == IndexFrom(text, "{", 1)
      j == IF i = 0 THEN 0 ELSE IndexFrom(text, "}", i + 1)
  IN IF j = 0 THEN text
     ELSE SubSeq(text, 1, i - 1) \o SubSeq(text, i + 1, j - 1)
          \o StripBraces(SubSeq(text, j + 1, Len(text)))

\* where /"([^"]*)":"([^"]*)",?/ matches at the head of text: the positions of
\* the second and the fourth quote and the end of the match, or <<>>
PairMatch(text) ==
  IF text = <<>> \/ Head(text) # "\"" THEN <<>>
  ELSE LET j == IndexFrom(text, "\"", 2)
       IN IF j = 0 \/ j + 2 > Len(text) \/ text[j + 1] # ":" \/ text[j + 2] # "\""
          THEN <<>>
          ELSE LET k == IndexFrom(text, "\"", j + 3)
               IN IF k = 0 THEN <<>>
                  ELSE IF k + 1 <= Len(text) /\ text[k + 1] = ","
                       THEN <<j, k, k + 1>>
                       ELSE <<j, k, k>>

RECURSIVE ReplacePairs(_)
\* str.replace(/"([^"]*)":"([^"]*)",?/g, '$1=$2&')
ReplacePairs(text) ==
  IF text = <<>> THEN <<>>
  ELSE LET m == PairMatch(text)
       IN IF m = <<>> THEN <<Head(text)>> \o ReplacePairs(Tail(text))
          ELSE SubSeq(text, 2, m[1] - 1) \o <<"=">>
               \o SubSeq(text, m[1] + 3, m[2] - 1) \o <<"&">>
               \o ReplacePairs(SubSeq(text, m[3] + 1, Len(text)))

plainify(json) == ReplacePairs(StripBraces(JSONStringify(json)))

-----------------------------------------------------------------------------
(* Errors *)

NoError == [name |-> "", message |-> "", cause |-> <<>>]

\* new Error(message): the constructor is given no cause
NewError(name, message) == [name |-> name, message |-> message, cause |-> <<>>]

\* the errors the transport emits on the request ('error' event)
TransportErrors ==
  {NewError("Error", "socket hang up"), NewError("Error", "getaddrinfo ENOTFOUND")}

-----------------------------------------------------------------------------
(* new URL(host) and the options of connect *)

\* schemes the URL parser treats as special, with their default ports
SpecialSchemes == "http" :> "80" @@ "https" :> "443"

\* identifiers that can stand before the first ":" as a scheme
SchemeLike == {"http", "https", "localhost"}

\* parseInt of the port texts the model draws hosts from; NaN is no number
NaN == -1

PortNumber == "" :> NaN @@ "0" :> 0 @@ "80" :> 80 @@ "443" :> 443 @@ "8080" :> 8080

\* new URL(host) without a base: host is a text <<scheme, ":", "//", name, ":", port>>
\* with optional parts.  ok = FALSE stands for the TypeError (Invalid URL).
ParseURL(host) ==
  IF Len(host) < 2 \/ host[2] # ":" \/ host[1] \notin SchemeLike
  THEN [ok |-> FALSE, protocol |-> "", hostname |-> "", port |-> ""]
  ELSE LET scheme == host[1]
           rest == SubSeq(host, 3, Len(host))
           auth == IF rest # <<>> /\ rest[1] = "//" THEN Tail(rest) ELSE <<>>
           name == IF auth = <<>> THEN "" ELSE auth[1]
           given == IF Len(auth) >= 3 /\ auth[2] = ":" THEN auth[3] ELSE ""
       IN IF scheme \in DOMAIN SpecialSchemes
          THEN IF name = ""
               THEN [ok |-> FALSE, protocol |-> "", hostname |-> "", port |-> ""]
               ELSE [ok |-> TRUE, protocol |-> scheme \o ":", hostname |-> name,
                     port |-> IF given = SpecialSchemes[scheme] THEN "" ELSE given]
          ELSE [ok |-> TRUE, protocol |-> scheme \o ":", hostname |-> name,
                port |-> given]

\* the options object of connect
ConnectOptions(url) ==
  [hostname |-> S(<<url.hostname>>),
   protocol |-> S(<<url.protocol>>),
   port |-> IF PortNumber[url.port] # NaN /\ PortNumber[url.port] # 0
            THEN N(PortNumber[url.port])
            ELSE IF url.protocol = "https:" THEN N(443) ELSE N(80)]

-----------------------------------------------------------------------------
(* performRequest, up to the dispatch of the request *)

ENDPOINT == "/api/v2"

\* the modules of the protocol table
protocol == {"https:", "http:"}

\* opt.<field>; only called when opt is neither undefined nor null
Prop(opt, field) == IF opt.t = "object" THEN opt.o[1][field] ELSE Undef

\* the characters outside ASCII the model draws values from, each an atom of
\* its own, with the number of bytes of its UTF-8 encoding
UTF8Bytes == "é" :> 2

RECURSIVE StringLength(_)
\* data.length: the number of UTF-16 code units of a text
StringLength(text) ==
  IF text = <<>> THEN 0
  ELSE (IF Head(text) \in DOMAIN UTF8Bytes THEN 1 ELSE Len(Head(text)))
       + StringLength(Tail(text))

RECURSIVE ByteLength(_)
\* the number of bytes req.write(data) puts on the wire (UTF-8)
ByteLength(text) ==
  IF text = <<>> THEN 0
  ELSE (IF Head(text) \in DOMAIN UTF8Bytes THEN UTF8Bytes[Head(text)]
        ELSE Len(Head(text)))
       + ByteLength(Tail(text))

OriginOf(opt) ==
  Flat(ToStr(Prop(opt, "protocol")) \o <<"//">> \o ToStr(Prop(opt, "hostname"))
       \o (IF Prop(opt, "port") # N(80) \/ Prop(opt, "port") # N(443)
           THEN <<":">> \o ToStr(Prop(opt, "port")) ELSE <<>>))

\* RequestHeaders with the Cookie header left out
RequestHeadersNoCookie(opt, cookie, data) ==
  [Referer |-> OriginOf(opt), Origin |-> OriginOf(opt),
   ContentType |-> "application/x-www-form-urlencoded",
   ContentLength |-> StringLength(data), Cookie |-> Null]

RequestHeaders(opt, cookie, data) ==
  [Referer |-> OriginOf(opt), Origin |-> OriginOf(opt),
   ContentType |-> "application/x-www-form-urlencoded",
   ContentLength |-> StringLength(data), Cookie |-> cookie]

Thrown(e) == [err |-> <<e>>, req |-> <<>>]
Sent(r) == [err |-> <<>>, req |-> <<r>>]

\* what performRequest has done when it returns its promise: either an error
\* was thrown (the promise is rejected with it) or one request is on the wire
performRequest(opt, cookie, path, parameters) ==
  LET data == plainify(parameters)
  IN IF opt.t \in {"undefined", "null"}
     THEN Thrown(NewError("TypeError", "Cannot read properties of " \o opt.t))
     ELSE LET options == [hostname |-> Prop(opt, "hostname"),
                          protocol |-> Prop(opt, "protocol"),
                          port |-> Prop(opt, "port"),
                          path |-> ENDPOINT \o path,
                          method |-> "POST",
                          headers |-> RequestHeaders(opt, cookie, data)]
          IN IF ~(options.protocol.t = "string"
                  /\ Flat(options.protocol.s) \in protocol)
             THEN Thrown(NewError("TypeError",
                                  "Cannot read properties of undefined"))
             ELSE Sent([options |-> options, data |-> data, body |-> Flat(data)])

-----------------------------------------------------------------------------
(* The handle's methods and the request functions they call *)

HandleTable ==
     "appVersion" :> [params |-> <<>>, callee |-> "appVersion",
       wire |-> <<"options", "cookie">>]  \* qbt.js:26-28
  @@ "apiVersion" :> [params |-> <<>>, callee |-> "apiVersion",
       wire |-> <<"options", "cookie">>]  \* qbt.js:33-35
  @@ "buildInfo" :> [params |-> <<>>, callee |-> "buildInfo",
       wire |-> <<"options", "cookie">>]  \* qbt.js:48-50
  @@ "shutdown" :> [params |-> <<>>, callee |-> "shutdown",
       wire |-> <<"options", "cookie">>]  \* qbt.js:54-56
  @@ "preferences" :> [params |-> <<>>, callee |-> "preferences",
       wire |-> <<"options", "cookie">>]  \* qbt.js:165-167
  @@ "defaultSavePath" :> [params |-> <<>>, callee |-> "defaultSavePath",
       wire |-> <<"options", "cookie">>]  \* qbt.js:172-174
  @@ "log" :> [params |-> <<"normal", "info", "warning", "critical", "lastKnownId">>, callee |-> "log",
       wire |-> <<"options", "cookie", "normal", "info", "warning", "critical", "lastKnownId">>]  \* qbt.js:191-193
  @@ "peerLog" :> [params |-> <<"lastKnownId">>, callee |-> "peerLog",
       wire |-> <<"options", "cookie", "lastKnownId">>]  \* qbt.js:207-209
  @@ "syncMainData" :> [params |-> <<"rid">>, callee |-> "syncMainData",
       wire |-> <<"options", "cookie", "rid">>]  \* qbt.js:227-229
  @@ "syncPeersData" :> [params |-> <<"hash", "rid">>, callee |-> "syncPeersData",
       wire |-> <<"options", "cookie", "hash", "rid">>]  \* qbt.js:236-238
  @@ "transferInfo" :> [params |-> <<>>, callee |-> "transferInfo",
       wire |-> <<"options", "cookie">>]  \* qbt.js:254-256
  @@ "speedLimitsMode" :> [params |-> <<>>, callee |-> "speedLimitsMode",
       wire |-> <<"options", "cookie">>]  \* qbt.js:261-263
  @@ "toggleSpeedLimitsMode" :> [params |-> <<>>, callee |-> "toggleSpeedLimitsMode",
       wire |-> <<"options", "cookie">>]  \* qbt.js:267-269
  @@ "globalDownloadLimit" :> [params |-> <<>>, callee |-> "globalDownloadLimit",
       wire |-> <<"options", "cookie">>]  \* qbt.js:274-276
  @@ "setGlobalDownloadLimit" :> [params |-> <<"limit">>, callee |-> "setGlobalDownloadLimit",
       wire |-> <<"options", "cookie", "limit">>]  \* qbt.js:281-283
  @@ "globalUploadLimit" :> [params |-> <<>>, callee |-> "globalUploadLimit",
       wire |-> <<"options", "cookie">>]  \* qbt.js:288-290
  @@ "setGlobalUploadLimit" :> [params |-> <<"limit">>, callee |-> "setGlobalUploadLimit",
       wire |-> <<"options", "cookie", "limit">>]  \* qbt.js:295-297
  @@ "banPeers" :> [params |-> <<"peers">>, callee |-> "banPeers",
       wire |-> <<"options", "cookie", "peers">>]  \* qbt.js:302-304
  @@ "torrents" :> [params |-> <<"filter", "category", "sort", "reverse", "limit", "offset", "hashes">>, callee |-> "torrents",
       wire |-> <<"options", "cookie", "filter", "category", "sort", "reverse", "limit", "offset", "hashes">>]  \* qbt.js:361-363
  @@ "properties" :> [params |-> <<"hash">>, callee |-> "properties",
       wire |-> <<"options", "cookie", "hash">>]  \* qbt.js:405-407
  @@ "trackers" :> [params |-> <<"hash">>, callee |-> "trackers",
       wire |-> <<"options", "cookie", "hash">>]  \* qbt.js:424-426
  @@ "webseeds" :> [params |-> <<"hash">>, callee |-> "webseeds",
       wire |-> <<"options", "cookie", "hash">>]  \* qbt.js:436-438
  @@ "files" :> [params |-> <<"hash">>, callee |-> "files",
       wire |-> <<"options", "cookie", "hash">>]  \* qbt.js:454-456
  @@ "pieceStates" :> [params |-> <<"hash">>, callee |-> "pieceStates",
       wire |-> <<"options", "cookie", "hash">>]  \* qbt.js:462-464
  @@ "pieceHashes" :> [params |-> <<"hash">>, callee |-> "pieceHashes",
       wire |-> <<"options", "cookie", "hash">>]  \* qbt.js:470-472
  @@ "pauseTorrents" :> [params |-> <<"hashes">>, callee |-> "pauseTorrents",
       wire |-> <<"options", "cookie", "hashes">>]  \* qbt.js:477-479
  @@ "resumeTorrents" :> [params |-> <<"hashes">>, callee |-> "resumeTorrents",
       wire |-> <<"options", "cookie", "hashes">>]  \* qbt.js:484-486
  @@ "deleteTorrents" :> [params |-> <<"hashes", "deleteFile">>, callee |-> "deleteTorrents",
       wire |-> <<"options", "cookie", "hashes", "deleteFile">>]  \* qbt.js:492-494
  @@ "recheckTorrents" :> [params |-> <<"hashes">>, callee |-> "recheckTorrents",
       wire |-> <<"options", "cookie", "hashes">>]  \* qbt.js:499-501
  @@ "reannounceTorrents" :> [params |-> <<"hashes">>, callee |-> "reannounceTorrents",
       wire |-> <<"options", "cookie", "hashes">>]  \* qbt.js:506-508
  @@ "editTrackers" :> [params |-> <<"hash", "origUrl", "newUrl">>, callee |-> "editTrackers",
       wire |-> <<"options", "cookie", "hash", "origUrl", "newUrl">>]  \* qbt.js:515-517
  @@ "removeTrackers" :> [params |-> <<"hash", "urls">>, callee |-> "removeTrackers",
       wire |-> <<"options", "cookie", "hash", "urls">>]  \* qbt.js:523-525
  @@ "addPeers" :> [params |-> <<"hashes", "peers">>, callee |-> "addPeers",
       wire |-> <<"options", "cookie", "hashes", "peers">>]  \* qbt.js:531-533
  @@ "addTorrent" :> [params |-> <<"urls">>, callee |-> "addTorrent",
       wire |-> <<"options", "cookie", "urls">>]  \* qbt.js:538-540
  @@ "addTrackers" :> [params |-> <<"hash", "urls">>, callee |-> "addTrackers",
       wire |-> <<"options", "cookie", "hash", "urls">>]  \* qbt.js:546-548
  @@ "increasePriority" :> [params |-> <<"hashes">>, callee |-> "increasePriority",
       wire |-> <<"options", "cookie", "hashes">>]  \* qbt.js:553-555
  @@ "decreasePriority" :> [params |-> <<"hashes">>, callee |-> "decreasePriority",
       wire |-> <<"options", "cookie", "hashes">>]  \* qbt.js:560-562
  @@ "maxPriority" :> [params |-> <<"hashes">>, callee |-> "maxPriority",
       wire |-> <<"options", "cookie", "hashes">>]  \* qbt.js:567-569
  @@ "minPriority" :> [params |-> <<"hashes">>, callee |-> "minPriority",
       wire |-> <<"options", "cookie", "hashes">>]  \* qbt.js:574-576
  @@ "setFilePriority" :> [params |-> <<"hash", "id", "priority">>, callee |-> "setFilePriority",
       wire |-> <<"options", "cookie", "hash", "id", "priority">>]  \* qbt.js:583-585
  @@ "downloadLimit" :> [params |-> <<"hashes">>, callee |-> "downloadLimit",
       wire |-> <<"options", "cookie", "hashes">>]  \* qbt.js:590-592
  @@ "setDownloadLimit" :> [params |-> <<"hashes", "limit">>, callee |-> "setDownloadLimit",
       wire |-> <<"options", "cookie", "hashes", "limit">>]  \* qbt.js:598-600
  @@ "setShareLimit" :> [params |-> <<"hashes", "ratioLimit", "seedingTimeLimit">>, callee |-> "setShareLimit",
       wire |-> <<"options", "cookie", "ratioLimit", "seedingTimeLimit">>]  \* qbt.js:607-609
  @@ "uploadLimit" :> [params |-> <<"hashes">>, callee |-> "uploadLimit",
       wire |-> <<"options", "cookie", "hashes">>]  \* qbt.js:614-616
  @@ "setUploadLimit" :> [params |-> <<"hashes", "limit">>, callee |-> "setUploadLimit",
       wire |-> <<"options", "cookie", "hashes", "limit">>]  \* qbt.js:622-624
  @@ "setLocation" :> [params |-> <<"hashes", "location">>, callee |-> "setLocation",
       wire |-> <<"options", "cookie", "hashes", "location">>]  \* qbt.js:630-632
  @@ "rename" :> [params |-> <<"hash", "name">>, callee |-> "rename",
       wire |-> <<"hash", "name">>]  \* qbt.js:638-640
  @@ "setCategory" :> [params |-> <<"hashes", "category">>, callee |-> "setCategory",
       wire |-> <<"options", "cookie", "hashes", "category">>]  \* qbt.js:646-648
  @@ "categories" :> [params |-> <<>>, callee |-> "categories",
       wire |-> <<"options", "cookie">>]  \* qbt.js:653-655
  @@ "createCategory" :> [params |-> <<"category", "savePath">>, callee |-> "createCategory",
       wire |-> <<"options", "cookie", "category", "savePath">>]  \* qbt.js:661-663
  @@ "editCategory" :> [params |-> <<"category", "savePath">>, callee |-> "editCategory",
       wire |-> <<"options", "cookie", "category", "savePath">>]  \* qbt.js:669-671
  @@ "removeCategories" :> [params |-> <<"categories">>, callee |-> "removeCategories",
       wire |-> <<"options", "cookie", "categories">>]  \* qbt.js:676-678
  @@ "addTags" :> [params |-> <<"hashes", "tags">>, callee |-> "addTags",
       wire |-> <<"options", "cookie", "hashes", "tags">>]  \* qbt.js:684-686
  @@ "removeTags" :> [params |-> <<"hashes", "tags">>, callee |-> "removeTags",
       wire |-> <<"options", "cookie", "hashes", "tags">>]  \* qbt.js:692-694
  @@ "tags" :> [params |-> <<>>, callee |-> "tags",
       wire |-> <<"options", "cookie">>]  \* qbt.js:699-701
  @@ "createTags" :> [params |-> <<"tags">>, callee |-> "createTags",
       wire |-> <<"options", "cookie", "tags">>]  \* qbt.js:706-708
  @@ "deleteTags" :> [params |-> <<"tags">>, callee |-> "deleteTags",
       wire |-> <<"options", "cookie", "tags">>]  \* qbt.js:713-715
  @@ "setAutoManagement" :> [params |-> <<"hashes", "enable">>, callee |-> "setAutoManagement",
       wire |-> <<"options", "cookie", "hashes", "enable">>]  \* qbt.js:721-723
  @@ "toggleSequentialDownload" :> [params |-> <<"hashes">>, callee |-> "toggleSequentialDownload",
       wire |-> <<"options", "cookie", "hashes">>]  \* qbt.js:728-730
  @@ "toggleFirstLastPiecePrio" :> [params |-> <<"hashes">>, callee |-> "toggleFirstLastPiecePrio",
       wire |-> <<"options", "cookie", "hashes">>]  \* qbt.js:735-737
  @@ "setForceStart" :> [params |-> <<"hashes", "value">>, callee |-> "setForceStart",
       wire |-> <<"options", "cookie", "hashes", "value">>]  \* qbt.js:743-745
  @@ "setSuperSeeding" :> [params |-> <<"hashes", "value">>, callee |-> "setSuperSeeding",
       wire |-> <<"options", "cookie", "hashes", "value">>]  \* qbt.js:751-753
  @@ "renameFile" :> [params |-> <<"hash", "id", "name">>, callee |-> "renameFile",
       wire |-> <<"options", "cookie", "hash", "id", "name">>]  \* qbt.js:760-762
  @@ "startSearch" :> [params |-> <<"pattern", "plugins", "category">>, callee |-> "startSearch",
       wire |-> <<"options", "cookie", "pattern", "plugins", "category">>]  \* qbt.js:774-776
  @@ "stopSearch" :> [params |-> <<"id">>, callee |-> "stopSearch",
       wire |-> <<"options", "cookie", "id">>]  \* qbt.js:781-783
  @@ "searchStatus" :> [params |-> <<"id">>, callee |-> "searchStatus",
       wire |-> <<"options", "cookie", "id">>]  \* qbt.js:795-797
  @@ "searchResults" :> [params |-> <<"id", "limit", "offset">>, callee |-> "searchResults",
       wire |-> <<"options", "cookie", "id", "limit", "offset">>]  \* qbt.js:821-823
  @@ "deleteSearch" :> [params |-> <<"id">>, callee |-> "deleteSearch",
       wire |-> <<"options", "cookie", "id">>]  \* qbt.js:828-830
  @@ "searchCategories" :> [params |-> <<"pluginName">>, callee |-> "searchCategories",
       wire |-> <<"options", "cookie", "pluginName">>]  \* qbt.js:836-838
  @@ "searchPlugins" :> [params |-> <<>>, callee |-> "searchPlugins",
       wire |-> <<"options", "cookie">>]  \* qbt.js:852-854
  @@ "installPlugin" :> [params |-> <<"sources">>, callee |-> "installPlugin",
       wire |-> <<"options", "cookie", "sources">>]  \* qbt.js:859-861
  @@ "uninstallPlugin" :> [params |-> <<"names">>, callee |-> "uninstallPlugin",
       wire |-> <<"options", "cookie", "names">>]  \* qbt.js:866-868
  @@ "enablePlugin" :> [params |-> <<"names", "enable">>, callee |-> "enablePlugin",
       wire |-> <<"options", "cookie", "names", "enable">>]  \* qbt.js:874-876
  @@ "updatePlugins" :> [params |-> <<>>, callee |-> "updatePlugins",
       wire |-> <<"options", "cookie">>]  \* qbt.js:880-882

FuncTable ==
     "appVersion" :> [fparams |-> <<"options", "cookie">>,
       defaults |-> <<Undef, Undef>>,
       path |-> "/app/version", kind |-> "text",
       build |-> <<>>]  \* qbt.js:892-895
  @@ "apiVersion" :> [fparams |-> <<"options", "cookie">>,
       defaults |-> <<Undef, Undef>>,
       path |-> "/app/webapiVersion", kind |-> "text",
       build |-> <<>>]  \* qbt.js:897-900
  @@ "buildInfo" :> [fparams |-> <<"options", "cookie">>,
       defaults |-> <<Undef, Undef>>,
       path |-> "/app/buildInfo", kind |-> "json",
       build |-> <<>>]  \* qbt.js:902-905
  @@ "shutdown" :> [fparams |-> <<"options", "cookie">>,
       defaults |-> <<Undef, Undef>>,
       path |-> "/app/shutdown", kind |-> "none",
       build |-> <<>>]  \* qbt.js:907-909
  @@ "preferences" :> [fparams |-> <<"options", "cookie">>,
       defaults |-> <<Undef, Undef>>,
       path |-> "/app/preferences", kind |-> "json",
       build |-> <<>>]  \* qbt.js:911-914
  @@ "defaultSavePath" :> [fparams |-> <<"options", "cookie">>,
       defaults |-> <<Undef, Undef>>,
       path |-> "/app/defaultSavePath", kind |-> "text",
       build |-> <<>>]  \* qbt.js:918-921
  @@ "log" :> [fparams |-> <<"options", "cookie", "normal", "info", "warning", "critical", "lastKnownId">>,
       defaults |-> <<Undef, Undef, B(TRUE), B(TRUE), B(TRUE), B(TRUE), N(-1)>>,
       path |-> "/log/main", kind |-> "json",
       build |-> <<[key |-> "normal", var |-> "normal", enc |-> FALSE, cond |-> FALSE],
         [key |-> "info", var |-> "info", enc |-> FALSE, cond |-> FALSE],
         [key |-> "warning", var |-> "warning", enc |-> FALSE, cond |-> FALSE],
         [key |-> "critical", var |-> "critical", enc |-> FALSE, cond |-> FALSE],
         [key |-> "last_known_id", var |-> "lastKnownId", enc |-> FALSE, cond |-> FALSE]>>]  \* qbt.js:925-928
  @@ "peerLog" :> [fparams |-> <<"options", "cookie", "lastKnownId">>,
       defaults |-> <<Undef, Undef, Undef>>,
       path |-> "/log/peers", kind |-> "json",
       build |-> <<[key |-> "last_known_id", var |-> "lastKnownId", enc |-> FALSE, cond |-> FALSE]>>]  \* qbt.js:930-933
  @@ "syncMainData" :> [fparams |-> <<"options", "cookie", "rid">>,
       defaults |-> <<Undef, Undef, Undef>>,
       path |-> "/sync/maindata", kind |-> "json",
       build |-> <<[key |-> "rid", var |-> "rid", enc |-> FALSE, cond |-> FALSE]>>]  \* qbt.js:937-940
  @@ "syncPeersData" :> [fparams |-> <<"options", "cookie", "hash", "rid">>,
       defaults |-> <<Undef, Undef, Undef, Undef>>,
       path |-> "/sync/torrentPeers", kind |-> "json",
       build |-> <<[key |-> "hash", var |-> "hash", enc |-> FALSE, cond |-> FALSE],
         [key |-> "rid", var |-> "rid", enc |-> FALSE, cond |-> FALSE]>>]  \* qbt.js:942-945
  @@ "transferInfo" :> [fparams |-> <<"options", "cookie">>,
       defaults |-> <<Undef, Undef>>,
       path |-> "/transfer/info", kind |-> "json",
       build |-> <<>>]  \* qbt.js:949-952
  @@ "speedLimitsMode" :> [fparams |-> <<"options", "cookie">>,
       defaults |-> <<Undef, Undef>>,
       path |-> "/transfer/speedLimitsMode", kind |-> "text",
       build |-> <<>>]  \* qbt.js:954-957
  @@ "toggleSpeedLimitsMode" :> [fparams |-> <<"options", "cookie">>,
       defaults |-> <<Undef, Undef>>,
       path |-> "/transfer/toggleSpeedLimitsMode", kind |-> "none",
       build |-> <<>>]  \* qbt.js:959-962
  @@ "globalDownloadLimit" :> [fparams |-> <<"options", "cookie">>,
       defaults |-> <<Undef, Undef>>,
       path |-> "/transfer/downloadLimit", kind |-> "text",
       build |-> <<>>]  \* qbt.js:964-967
  @@ "setGlobalDownloadLimit" :> [fparams |-> <<"options", "cookie", "limit">>,
       defaults |-> <<Undef, Undef, Undef>>,
       path |-> "/transfer/setDownloadLimit", kind |-> "none",
       build |-> <<[key |-> "limit", var |-> "limit", enc |-> FALSE, cond |-> FALSE]>>]  \* qbt.js:969-972
  @@ "globalUploadLimit" :> [fparams |-> <<"options", "cookie">>,
       defaults |-> <<Undef, Undef>>,
       path |-> "/transfer/uploadLimit", kind |-> "text",
       build |-> <<>>]  \* qbt.js:974-977
  @@ "setGlobalUploadLimit" :> [fparams |-> <<"options", "cookie", "limit">>,
       defaults |-> <<Undef, Undef, Undef>>,
       path |-> "/transfer/setUploadLimit", kind |-> "none",
       build |-> <<[key |-> "limit", var |-> "limit", enc |-> FALSE, cond |-> FALSE]>>]  \* qbt.js:979-982
  @@ "banPeers" :> [fparams |-> <<"options", "cookie", "peers">>,
       defaults |-> <<Undef, Undef, Undef>>,
       path |-> "/transfer/banPeers", kind |-> "none",
       build |-> <<[key |-> "peers", var |-> "peers", enc |-> FALSE, cond |-> FALSE]>>]  \* qbt.js:984-987
  @@ "torrents" :> [fparams |-> <<"options", "cookie", "filter", "category", "sort", "reverse", "limit", "offset", "hashes">>,
       defaults |-> <<Undef, Undef, Undef, Undef, Undef, Undef, Undef, Undef, Undef>>,
       path |-> "/torrents/info", kind |-> "json",
       build |-> <<[key |-> "filter", var |-> "filter", enc |-> FALSE, cond |-> TRUE],
         [key |-> "category", var |-> "category", enc |-> FALSE, cond |-> TRUE],
         [key |-> "sort", var |-> "sort", enc |-> FALSE, cond |-> TRUE],
         [key |-> "reverse", var |-> "reverse", enc |-> FALSE, cond |-> TRUE],
         [key |-> "limit", var |-> "limit", enc |-> FALSE, cond |-> TRUE],
         [key |-> "offset", var |-> "offset", enc |-> FALSE, cond |-> TRUE],
         [key |-> "hashes", var |-> "hashes", enc |-> FALSE, cond |-> TRUE]>>]  \* qbt.js:991-1003
  @@ "properties" :> [fparams |-> <<"options", "cookie", "hash">>,
       defaults |-> <<Undef, Undef, Undef>>,
       path |-> "/torrents/properties", kind |-> "json",
       build |-> <<[key |-> "hash", var |-> "hash", enc |-> FALSE, cond |-> FALSE]>>]  \* qbt.js:1005-1008
  @@ "trackers" :> [fparams |-> <<"options", "cookie", "hash">>,
       defaults |-> <<Undef, Undef, Undef>>,
       path |-> "/torrents/trackers", kind |-> "json",
       build |-> <<[key |-> "hash", var |-> "hash", enc |-> FALSE, cond |-> FALSE]>>]  \* qbt.js:1010-1013
  @@ "webseeds" :> [fparams |-> <<"options", "cookie", "hash">>,
       defaults |-> <<Undef, Undef, Undef>>,
       path |-> "/torrents/webseeds", kind |-> "json",
       build |-> <<[key |-> "hash", var |-> "hash", enc |-> FALSE, cond |-> FALSE]>>]  \* qbt.js:1015-1018
  @@ "files" :> [fparams |-> <<"options", "cookie", "hash">>,
       defaults |-> <<Undef, Undef, Undef>>,
       path |-> "/torrents/files", kind |-> "json",
       build |-> <<[key |-> "hash", var |-> "hash", enc |-> FALSE, cond |-> FALSE]>>]  \* qbt.js:1020-1023
  @@ "pieceStates" :> [fparams |-> <<"options", "cookie", "hash">>,
       defaults |-> <<Undef, Undef, Undef>>,
       path |-> "/torrents/pieceStates", kind |-> "json",
       build |-> <<[key |-> "hash", var |-> "hash", enc |-> FALSE, cond |-> FALSE]>>]  \* qbt.js:1025-1028
  @@ "pieceHashes" :> [fparams |-> <<"options", "cookie", "hash">>,
       defaults |-> <<Undef, Undef, Undef>>,
       path |-> "/torrents/pieceHashes", kind |-> "json",
       build |-> <<[key |-> "hash", var |-> "hash", enc |-> FALSE, cond |-> FALSE]>>]  \* qbt.js:1030-1033
  @@ "pauseTorrents" :> [fparams |-> <<"options", "cookie", "hashes">>,
       defaults |-> <<Undef, Undef, Undef>>,
       path |-> "/torrents/pause", kind |-> "none",
       build |-> <<[key |-> "hashes", var |-> "hashes", enc |-> FALSE, cond |-> FALSE]>>]  \* qbt.js:1035-1038
  @@ "resumeTorrents" :> [fparams |-> <<"options", "cookie", "hashes">>,
       defaults |-> <<Undef, Undef, Undef>>,
       path |-> "/torrents/resume", kind |-> "none",
       build |-> <<[key |-> "hashes", var |-> "hashes", enc |-> FALSE, cond |-> FALSE]>>]  \* qbt.js:1040-1043
  @@ "deleteTorrents" :> [fparams |-> <<"options", "cookie", "hashes", "deleteFile">>,
       defaults |-> <<Undef, Undef, Undef, Undef>>,
       path |-> "/torrents/delete", kind |-> "none",
       build |-> <<[key |-> "hashes", var |-> "hashes", enc |-> FALSE, cond |-> FALSE],
         [key |-> "deleteFile", var |-> "deleteFile", enc |-> FALSE, cond |-> FALSE]>>]  \* qbt.js:1045-1048
  @@ "recheckTorrents" :> [fparams |-> <<"options", "cookie", "hashes">>,
       defaults |-> <<Undef, Undef, Undef>>,
       path |-> "/torrents/recheck", kind |-> "none",
       build |-> <<[key |-> "hashes", var |-> "hashes", enc |-> FALSE, cond |-> FALSE]>>]  \* qbt.js:1050-1053
  @@ "reannounceTorrents" :> [fparams |-> <<"options", "cookie", "hashes">>,
       defaults |-> <<Undef, Undef, Undef>>,
       path |-> "/torrents/reannounce", kind |-> "none",
       build |-> <<[key |-> "hashes", var |-> "hashes", enc |-> FALSE, cond |-> FALSE]>>]  \* qbt.js:1055-1058
  @@ "editTrackers" :> [fparams |-> <<"options", "cookie", "hash", "origUrl", "newUrl">>,
       defaults |-> <<Undef, Undef, Undef, Undef, Undef>>,
       path |-> "/torrents/editTracker", kind |-> "none",
       build |-> <<[key |-> "hash", var |-> "hash", enc |-> FALSE, cond |-> FALSE],
         [key |-> "origUrl", var |-> "origUrl", enc |-> FALSE, cond |-> FALSE],
         [key |-> "newUrl", var |-> "newUrl", enc |-> FALSE, cond |-> FALSE]>>]  \* qbt.js:1060-1063
  @@ "removeTrackers" :> [fparams |-> <<"options", "cookie", "hash", "urls">>,
       defaults |-> <<Undef, Undef, Undef, Undef>>,
       path |-> "/torrents/removeTrackers", kind |-> "none",
       build |-> <<[key |-> "hash", var |-> "hash", enc |-> FALSE, cond |-> FALSE],
         [key |-> "urls", var |-> "urls", enc |-> FALSE, cond |-> FALSE]>>]  \* qbt.js:1065-1068
  @@ "addPeers" :> [fparams |-> <<"options", "cookie", "hashes", "peers">>,
       defaults |-> <<Undef, Undef, Undef, Undef>>,
       path |-> "/torrents/addPeers", kind |-> "none",
       build |-> <<[key |-> "hashes", var |-> "hashes", enc |-> FALSE, cond |-> FALSE],
         [key |-> "peers", var |-> "peers", enc |-> FALSE, cond |-> FALSE]>>]  \* qbt.js:1070-1073
  @@ "addTorrent" :> [fparams |-> <<"options", "cookie", "urls">>,
       defaults |-> <<Undef, Undef, Undef>>,
       path |-> "/torrents/add", kind |-> "none",
       build |-> <<[key |-> "urls", var |-> "urls", enc |-> TRUE, cond |-> FALSE]>>]  \* qbt.js:1075-1078
  @@ "addTrackers" :> [fparams |-> <<"options", "cookie", "hash", "urls">>,
       defaults |-> <<Undef, Undef, Undef, Undef>>,
       path |-> "/torrents/addTrackers", kind |-> "none",
       build |-> <<[key |-> "hash", var |-> "hash", enc |-> FALSE, cond |-> FALSE],
         [key |-> "urls", var |-> "urls", enc |-> TRUE, cond |-> FALSE]>>]  \* qbt.js:1080-1083
  @@ "increasePriority" :> [fparams |-> <<"options", "cookie", "hashes">>,
       defaults |-> <<Undef, Undef, Undef>>,
       path |-> "/torrents/increasePrio", kind |-> "none",
       build |-> <<[key |-> "hashes", var |-> "hashes", enc |-> FALSE, cond |-> FALSE]>>]  \* qbt.js:1085-1088
  @@ "decreasePriority" :> [fparams |-> <<"options", "cookie", "hashes">>,
       defaults |-> <<Undef, Undef, Undef>>,
       path |-> "/torrents/decreasePrio", kind |-> "none",
       build |-> <<[key |-> "hashes", var |-> "hashes", enc |-> FALSE, cond |-> FALSE]>>]  \* qbt.js:1090-1093
  @@ "maxPriority" :> [fparams |-> <<"options", "cookie", "hashes">>,
       defaults |-> <<Undef, Undef, Undef>>,
       path |-> "/torrents/topPrio", kind |-> "none",
       build |-> <<[key |-> "hashes", var |-> "hashes", enc |-> FALSE, cond |-> FALSE]>>]  \* qbt.js:1095-1098
  @@ "minPriority" :> [fparams |-> <<"options", "cookie", "hashes">>,
       defaults |-> <<Undef, Undef, Undef>>,
       path |-> "/torrents/bottomPrio", kind |-> "none",
       build |-> <<[key |-> "hashes", var |-> "hashes", enc |-> FALSE, cond |-> FALSE]>>]  \* qbt.js:1100-1103
  @@ "setFilePriority" :> [fparams |-> <<"options", "cookie", "hash", "id", "priority">>,
       defaults |-> <<Undef, Undef, Undef, Undef, Undef>>,
       path |-> "/torrents/filePrio", kind |-> "none",
       build |-> <<[key |-> "hash", var |-> "hash", enc |-> FALSE, cond |-> FALSE],
         [key |-> "id", var |-> "id", enc |-> FALSE, cond |-> FALSE],
         [key |-> "priority", var |-> "priority", enc |-> FALSE, cond |-> FALSE]>>]  \* qbt.js:1105-1108
  @@ "downloadLimit" :> [fparams |-> <<"options", "cookie", "hashes">>,
       defaults |-> <<Undef, Undef, Undef>>,
       path |-> "/torrents/downloadLimit", kind |-> "json",
       build |-> <<[key |-> "hashes", var |-> "hashes", enc |-> FALSE, cond |-> FALSE]>>]  \* qbt.js:1110-1113
  @@ "setDownloadLimit" :> [fparams |-> <<"options", "cookie", "hashes", "limit">>,
       defaults |-> <<Undef, Undef, Undef, Undef>>,
       path |-> "/torrents/setDownloadLimit", kind |-> "none",
       build |-> <<[key |-> "hashes", var |-> "hashes", enc |-> FALSE, cond |-> FALSE],
         [key |-> "limit", var |-> "limit", enc |-> FALSE, cond |-> FALSE]>>]  \* qbt.js:1115-1118
  @@ "setShareLimit" :> [fparams |-> <<"options", "cookie", "hashes", "ratioLimit", "seedingTimeLimit">>,
       defaults |-> <<Undef, Undef, Undef, Undef, Undef>>,
       path |-> "/torrents/setShareLimits", kind |-> "none",
       build |-> <<[key |-> "hashes", var |-> "hashes", enc |-> FALSE, cond |-> FALSE],
         [key |-> "ratioLimit", var |-> "ratioLimit", enc |-> FALSE, cond |-> FALSE],
         [key |-> "seedingTimeLimit", var |-> "seedingTimeLimit", enc |-> FALSE, cond |-> FALSE]>>]  \* qbt.js:1120-1123
  @@ "uploadLimit" :> [fparams |-> <<"options", "cookie", "hashes">>,
       defaults |-> <<Undef, Undef, Undef>>,
       path |-> "/torrents/uploadLimit", kind |-> "json",
       build |-> <<[key |-> "hashes", var |-> "hashes", enc |-> FALSE, cond |-> FALSE]>>]  \* qbt.js:1125-1128
  @@ "setUploadLimit" :> [fparams |-> <<"options", "cookie", "hashes", "limit">>,
       defaults |-> <<Undef, Undef, Undef, Undef>>,
       path |-> "/torrents/setUploadLimit", kind |-> "none",
       build |-> <<[key |-> "hashes", var |-> "hashes", enc |-> FALSE, cond |-> FALSE],
         [key |-> "limit", var |-> "limit", enc |-> FALSE, cond |-> FALSE]>>]  \* qbt.js:1130-1133
  @@ "setLocation" :> [fparams |-> <<"options", "cookie", "hashes", "location">>,
       defaults |-> <<Undef, Undef, Undef, Undef>>,
       path |-> "/torrents/setLocation", kind |-> "none",
       build |-> <<[key |-> "hashes", var |-> "hashes", enc |-> FALSE, cond |-> FALSE],
         [key |-> "location", var |-> "location", enc |-> FALSE, cond |-> FALSE]>>]  \* qbt.js:1135-1138
  @@ "rename" :> [fparams |-> <<"options", "cookie", "hash", "name">>,
       defaults |-> <<Undef, Undef, Undef, Undef>>,
       path |-> "/torrents/rename", kind |-> "none",
       build |-> <<[key |-> "hash", var |-> "hash", enc |-> FALSE, cond |-> FALSE],
         [key |-> "name", var |-> "name", enc |-> TRUE, cond |-> FALSE]>>]  \* qbt.js:1140-1143
  @@ "setCategory" :> [fparams |-> <<"options", "cookie", "hash", "category">>,
       defaults |-> <<Undef, Undef, Undef, Undef>>,
       path |-> "/torrents/setCategory", kind |-> "none",
       build |-> <<[key |-> "hash", var |-> "hash", enc |-> FALSE, cond |-> FALSE],
         [key |-> "category", var |-> "category", enc |-> TRUE, cond |-> FALSE]>>]  \* qbt.js:1145-1148
  @@ "categories" :> [fparams |-> <<"options", "cookie">>,
       defaults |-> <<Undef, Undef>>,
       path |-> "/torrents/categories", kind |-> "json",
       build |-> <<>>]  \* qbt.js:1150-1153
  @@ "createCategory" :> [fparams |-> <<"options", "cookie", "category", "savePath">>,
       defaults |-> <<Undef, Undef, Undef, Undef>>,
       path |-> "/torrents/createCategory", kind |-> "none",
       build |-> <<[key |-> "category", var |-> "category", enc |-> TRUE, cond |-> FALSE],
         [key |-> "savePath", var |-> "savePath", enc |-> FALSE, cond |-> FALSE]>>]  \* qbt.js:1155-1158
  @@ "editCategory" :> [fparams |-> <<"options", "cookie", "category", "savePath">>,
       defaults |-> <<Undef, Undef, Undef, Undef>>,
       path |-> "/torrents/editCategory", kind |-> "none",
       build |-> <<[key |-> "category", var |-> "category", enc |-> TRUE, cond |-> FALSE],
         [key |-> "savePath", var |-> "savePath", enc |-> FALSE, cond |-> FALSE]>>]  \* qbt.js:1160-1163
  @@ "removeCategories" :> [fparams |-> <<"options", "cookie", "categories">>,
       defaults |-> <<Undef, Undef, Undef>>,
       path |-> "/torrents/removeCategories", kind |-> "none",
       build |-> <<[key |-> "categories", var |-> "categories", enc |-> TRUE, cond |-> FALSE]>>]  \* qbt.js:1165-1168
  @@ "addTags" :> [fparams |-> <<"options", "cookie", "hashes", "tags">>,
       defaults |-> <<Undef, Undef, Undef, Undef>>,
       path |-> "/torrents/addTags", kind |-> "none",
       build |-> <<[key |-> "hashes", var |-> "hashed", enc |-> FALSE, cond |-> FALSE],
         [key |-> "tags", var |-> "tags", enc |-> TRUE, cond |-> FALSE]>>]  \* qbt.js:1170-1173
  @@ "removeTags" :> [fparams |-> <<"options", "cookie", "hashes", "tags">>,
       defaults |-> <<Undef, Undef, Undef, Undef>>,
       path |-> "/torrents/removeTags", kind |-> "none",
       build |-> <<[key |-> "hashes", var |-> "hashed", enc |-> FALSE, cond |-> FALSE],
         [key |-> "tags", var |-> "tags", enc |-> TRUE, cond |-> FALSE]>>]  \* qbt.js:1175-1178
  @@ "tags" :> [fparams |-> <<"options", "cookie">>,
       defaults |-> <<Undef, Undef>>,
       path |-> "/torrents/tags", kind |-> "json",
       build |-> <<>>]  \* qbt.js:1180-1183
  @@ "createTags" :> [fparams |-> <<"options", "cookie", "tags">>,
       defaults |-> <<Undef, Undef, Undef>>,
       path |-> "/torrents/createTags", kind |-> "none",
       build |-> <<[key |-> "tags", var |-> "tags", enc |-> TRUE, cond |-> FALSE]>>]  \* qbt.js:1185-1188
  @@ "deleteTags" :> [fparams |-> <<"options", "cookie", "tags">>,
       defaults |-> <<Undef, Undef, Undef>>,
       path |-> "/torrents/deleteTags", kind |-> "none",
       build |-> <<[key |-> "tags", var |-> "tags", enc |-> TRUE, cond |-> FALSE]>>]  \* qbt.js:1190-1193
  @@ "setAutoManagement" :> [fparams |-> <<"options", "cookie", "hashes", "enable">>,
       defaults |-> <<Undef, Undef, Undef, Undef>>,
       path |-> "/torrents/setAutoManagement", kind |-> "none",
       build |-> <<[key |-> "hashes", var |-> "hashes", enc |-> FALSE, cond |-> FALSE],
         [key |-> "enable", var |-> "enable", enc |-> FALSE, cond |-> FALSE]>>]  \* qbt.js:1195-1198
  @@ "toggleSequentialDownload" :> [fparams |-> <<"options", "cookie", "hashes">>,
       defaults |-> <<Undef, Undef, Undef>>,
       path |-> "/torrents/toggleSequentialDownload", kind |-> "none",
       build |-> <<[key |-> "hashes", var |-> "hashes", enc |-> FALSE, cond |-> FALSE]>>]  \* qbt.js:1200-1203
  @@ "toggleFirstLastPiecePrio" :> [fparams |-> <<"options", "cookie", "hashes">>,
       defaults |-> <<Undef, Undef, Undef>>,
       path |-> "/torrents/toggleFirstLastPiecePrio", kind |-> "none",
       build |-> <<[key |-> "hashes", var |-> "hashes", enc |-> FALSE, cond |-> FALSE]>>]  \* qbt.js:1205-1208
  @@ "setForceStart" :> [fparams |-> <<"options", "cookie", "hashes", "value">>,
       defaults |-> <<Undef, Undef, Undef, Undef>>,
       path |-> "/torrents/setForceStart", kind |-> "none",
       build |-> <<[key |-> "hashes", var |-> "hashes", enc |-> FALSE, cond |-> FALSE],
         [key |-> "value", var |-> "value", enc |-> FALSE, cond |-> FALSE]>>]  \* qbt.js:1210-1213
  @@ "setSuperSeeding" :> [fparams |-> <<"options", "cookie", "hashes", "value">>,
       defaults |-> <<Undef, Undef, Undef, Undef>>,
       path |-> "/torrents/setSuperSeeding", kind |-> "none",
       build |-> <<[key |-> "hashes", var |-> "hashes", enc |-> FALSE, cond |-> FALSE],
         [key |-> "value", var |-> "value", enc |-> FALSE, cond |-> FALSE]>>]  \* qbt.js:1215-1218
  @@ "renameFile" :> [fparams |-> <<"options", "cookie", "hash", "id", "name">>,
       defaults |-> <<Undef, Undef, Undef, Undef, Undef>>,
       path |-> "/torrents/renameFile", kind |-> "none",
       build |-> <<[key |-> "hash", var |-> "hash", enc |-> FALSE, cond |-> FALSE],
         [key |-> "id", var |-> "id", enc |-> FALSE, cond |-> FALSE],
         [key |-> "name", var |-> "name", enc |-> TRUE, cond |-> FALSE]>>]  \* qbt.js:1220-1223
  @@ "startSearch" :> [fparams |-> <<"options", "cookie", "pattern", "plugins", "category">>,
       defaults |-> <<Undef, Undef, Undef, Undef, Undef>>,
       path |-> "/search/start", kind |-> "json",
       build |-> <<[key |-> "pattern", var |-> "pattern", enc |-> FALSE, cond |-> FALSE],
         [key |-> "plugins", var |-> "plugins", enc |-> FALSE, cond |-> FALSE],
         [key |-> "category", var |-> "category", enc |-> FALSE, cond |-> FALSE]>>]  \* qbt.js:1227-1230
  @@ "stopSearch" :> [fparams |-> <<"options", "cookie", "id">>,
       defaults |-> <<Undef, Undef, Undef>>,
       path |-> "/search/stop", kind |-> "none",
       build |-> <<[key |-> "id", var |-> "id", enc |-> FALSE, cond |-> FALSE]>>]  \* qbt.js:1232-1235
  @@ "searchStatus" :> [fparams |-> <<"options", "cookie", "id">>,
       defaults |-> <<Undef, Undef, Undef>>,
       path |-> "/search/status", kind |-> "json",
       build |-> <<[key |-> "id", var |-> "id", enc |-> FALSE, cond |-> TRUE]>>]  \* qbt.js:1237-1243
  @@ "searchResults" :> [fparams |-> <<"options", "cookie", "id", "limit", "offset">>,
       defaults |-> <<Undef, Undef, Undef, Undef, Undef>>,
       path |-> "/search/results", kind |-> "json",
       build |-> <<[key |-> "id", var |-> "id", enc |-> FALSE, cond |-> FALSE],
         [key |-> "limit", var |-> "limit", enc |-> FALSE, cond |-> TRUE],
         [key |-> "offset", var |-> "offset", enc |-> FALSE, cond |-> TRUE]>>]  \* qbt.js:1245-1252
  @@ "deleteSearch" :> [fparams |-> <<"options", "cookie", "id">>,
       defaults |-> <<Undef, Undef, Undef>>,
       path |-> "/search/delete", kind |-> "none",
       build |-> <<[key |-> "id", var |-> "id", enc |-> FALSE, cond |-> FALSE]>>]  \* qbt.js:1254-1257
  @@ "searchCategories" :> [fparams |-> <<"options", "cookie", "pluginName">>,
       defaults |-> <<Undef, Undef, Undef>>,
       path |-> "/search/categories", kind |-> "json",
       build |-> <<[key |-> "pluginName", var |-> "pluginName", enc |-> FALSE, cond |-> TRUE]>>]  \* qbt.js:1259-1265
  @@ "searchPlugins" :> [fparams |-> <<"options", "cookie">>,
       defaults |-> <<Undef, Undef>>,
       path |-> "/search/plugins", kind |-> "json",
       build |-> <<>>]  \* qbt.js:1267-1270
  @@ "installPlugin" :> [fparams |-> <<"options", "cookie", "sources">>,
       defaults |-> <<Undef, Undef, Undef>>,
       path |-> "/search/installPlugin", kind |-> "none",
       build |-> <<[key |-> "sources", var |-> "sources", enc |-> FALSE, cond |-> FALSE]>>]  \* qbt.js:1272-1275
  @@ "uninstallPlugin" :> [fparams |-> <<"options", "cookie", "names">>,
       defaults |-> <<Undef, Undef, Undef>>,
       path |-> "/search/uninstallPlugin", kind |-> "none",
       build |-> <<[key |-> "names", var |-> "names", enc |-> FALSE, cond |-> FALSE]>>]  \* qbt.js:1277-1280
  @@ "enablePlugin" :> [fparams |-> <<"options", "cookie", "names", "enable">>,
       defaults |-> <<Undef, Undef, Undef, Undef>>,
       path |-> "/search/enablePlugin", kind |-> "none",
       build |-> <<[key |-> "names", var |-> "names", enc |-> FALSE, cond |-> FALSE],
         [key |-> "enable", var |-> "enable", enc |-> FALSE, cond |-> FALSE]>>]  \* qbt.js:1282-1285
  @@ "updatePlugins" :> [fparams |-> <<"options", "cookie">>,
       defaults |-> <<Undef, Undef>>,
       path |-> "/search/updatePlugins", kind |-> "none",
       build |-> <<>>]  \* qbt.js:1287-1290

Methods == DOMAIN HandleTable

\* the value a name of the handle method's body stands for
HandleEnv(m, args, h, name) ==
  LET ps == HandleTable[m].params
  IN IF \E i \in 1..Len(ps) : ps[i] = name
     THEN LET i == CHOOSE i \in 1..Len(ps) : ps[i] = name
          IN IF i <= Len(args) THEN args[i] ELSE Undef
     ELSE IF name = "options" THEN O(h.options)
     ELSE h.cookie

\* the arguments the handle method passes to its request function
WiredArgs(m, args, h) ==
  [i \in 1..Len(HandleTable[m].wire) |-> HandleEnv(m, args, h, HandleTable[m].wire[i])]

\* the value bound to the i-th parameter of function f called with cargs
Bound(f, cargs, i) ==
  IF i <= Len(cargs) /\ cargs[i].t # "undefined" THEN cargs[i]
  ELSE FuncTable[f].defaults[i]

Declared(f, name) == \E i \in 1..Len(FuncTable[f].fparams) : FuncTable[f].fparams[i] = name

Lookup(f, cargs, name) ==
  Bound(f, cargs, CHOOSE i \in 1..Len(FuncTable[f].fparams) : FuncTable[f].fparams[i] = name)

RECURSIVE BuildParametersUnconditional(_, _, _)
\* BuildParameters with every `if (x)` guard dropped
BuildParametersUnconditional(f, cargs, entries) ==
  IF entries = <<>> THEN [err |-> <<>>, props |-> <<>>]
  ELSE LET e == Head(entries)
       IN IF ~Declared(f, e.var)
          THEN [err |-> <<NewError("ReferenceError", e.var \o " is not defined")>>,
                props |-> <<>>]
          ELSE LET v == Lookup(f, cargs, e.var)
                   rest == BuildParametersUnconditional(f, cargs, Tail(entries))
               IN IF rest.err # <<>> THEN rest
                  ELSE [err |-> <<>>,
                        props |-> <<[key |-> e.key,
                                     val |-> IF e.enc THEN encodeURI(v) ELSE v]>>
                                  \o rest.props]

RECURSIVE BuildParameters(_, _, _)
\* the parameters object of f, or the ReferenceError of an undeclared name
BuildParameters(f, cargs, entries) ==
  IF entries = <<>> THEN [err |-> <<>>, props |-> <<>>]
  ELSE LET e == Head(entries)
       IN IF ~Declared(f, e.var)
          THEN [err |-> <<NewError("ReferenceError", e.var \o " is not defined")>>,
                props |-> <<>>]
          ELSE LET v == Lookup(f, cargs, e.var)
                   rest == BuildParameters(f, cargs, Tail(entries))
                   here == IF e.cond /\ ~Truthy(v) THEN <<>>
                           ELSE <<[key |-> e.key,
                                   val |-> IF e.enc THEN encodeURI(v) ELSE v]>>
               IN IF rest.err # <<>> THEN rest
                  ELSE [err |-> <<>>, props |-> here \o rest.props]

\* the request function f called with cargs, up to the dispatch of its request
RunFunction(f, cargs) ==
  LET built == BuildParameters(f, cargs, FuncTable[f].build)
  IN IF built.err # <<>> THEN Thrown(built.err[1])
     ELSE performRequest(Lookup(f, cargs, "options"), Lookup(f, cargs, "cookie"),
                         FuncTable[f].path, built.props)

\* the handle method m called with args
RunMethod(m, args, h) == RunFunction(HandleTable[m].callee, WiredArgs(m, args, h))

-----------------------------------------------------------------------------
(* Inputs of the model *)

\* host identifiers given to connect, as texts for ParseURL
Hosts ==
  {<<"http", ":", "//", "localhost", ":", "8080">>,
   <<"https", ":", "//", "qbt.example">>,
   <<"http", ":", "//", "localhost", ":", "0">>,
   <<"localhost", ":", "8080">>,
   <<"localhost">>}

Usernames == {"admin", "guest"}

Passwords == {"secret"}

Statuses == {200, 204, 403}

\* the Set-Cookie header of a response: the array of its cookies, <<>> when
\* the header is absent
LoginSetCookies == {<<>>, <<"SID=abc123", "lang=en">>}

ReplySetCookies == {<<>>, <<"SID=zzz">>}

\* the pieces a response body arrives in
Chunks == {"[\"a1", "b2c3\"]", "v4.1.3"}

\* the values a caller passes for a parameter of a method
ArgValues == {Undef, S(<<>>), S(<<"abc">>), N(0), B(FALSE)}

\* string values a caller passes that hold characters reserved in form and URI
\* encoding: '&', '=', '%', a space, a character outside ASCII
EncodeValues ==
  {S(<<"abc">>), S(<<"a", "&", "b">>), S(<<"a", "=", "b">>), S(<<"50", "%">>),
   S(<<"my", " ", "file">>), S(<<"caf", "é">>)}

\* string values a caller passes that hold a character with a role in the
\* JSON text plainify works on: a comma, a brace, a double quote
StructValues ==
  {S(<<"abc">>), S(<<"a", ",", "b">>), S(<<"a", "{", "b">>), S(<<"a", "}", "b">>),
   S(<<"a", "\"", "b">>)}

\* the values a caller passes for the optional parameters of torrents: null
\* (documented as "any category"), the empty string ("without category"), a name
CategoryValues == {Null, S(<<>>), S(<<"abc">>)}

\* the arguments a caller passes when the claim is not about them: one
\* distinct string per position
DefaultArgs(m) == [k \in 1..Len(HandleTable[m].params) |-> S(<<"arg" \o ToString(k)>>)]

-----------------------------------------------------------------------------
(* State *)

\* calls[0] is the connect call, calls[i] the i-th capability call.
\*   st       "idle", "pending", "resolved" or "rejected": the call's promise
\*   reqs     the requests the call has put on the wire
\*   resp     <<>> or <<[status, setCookie]>>: the response head received
\*   chunks   the 'data' chunks received, in arrival order
\*   ended    whether 'end' has been emitted
\*   errored  <<>> or <<e>>: the error the request has emitted
\*   val      <<>> (undefined) or <<v>>: the value the promise resolved with
\*   err      the error the promise rejected with
IdleCall ==
  [st |-> "idle", method |-> "", args |-> <<>>, reqs |-> <<>>, resp |-> <<>>,
   chunks |-> <<>>, ended |-> FALSE, errored |-> <<>>, val |-> <<>>,
   err |-> NoError]

Slots == 0..MaxCalls

Init ==
  /\ calls = [i \in Slots |-> IdleCall]
  /\ handle = <<>>
  /\ console = <<>>

RECURSIVE ConcatReversed(_)
\* Concat with each chunk put before the ones received earlier
ConcatReversed(chunks) ==
  IF chunks = <<>> THEN "" ELSE ConcatReversed(Tail(chunks)) \o Head(chunks)

RECURSIVE Concat(_)
\* Buffer.concat(data).toString()
Concat(chunks) == IF chunks = <<>> THEN "" ELSE Head(chunks) \o Concat(Tail(chunks))

\* JSON.parse over the bodies the model's chunks can form: only the complete
\* array text is well-formed
JSONParse(text) ==
  IF text = "[\"a1b2c3\"]" THEN [ok |-> TRUE, val |-> <<"a1b2c3">>]
  ELSE [ok |-> FALSE, val |-> <<>>]

LoginFailed(username) == NewError("Error", "Login failed with username: " \o username)

HttpError(status) == NewError("Error", "HTTP request error: " \o ToString(status))

\* OnError rejecting with a new error that wraps the emitted one
OnErrorWrapped(err) ==
  [name |-> "Error", message |-> "Request failed: " \o err.message, cause |-> <<err>>]

\* req.on('error', err => reject(err))
OnError(err) == err

\* OnEnd with the chunks of all responses collected in one buffer, that of the
\* first call
OnEndShared(c) ==
  IF c.resp[1].status = 200
  THEN [ok |-> TRUE, res |-> Concat(calls[1].chunks),
        cookie |-> IF c.resp[1].setCookie # <<>> THEN S(<<c.resp[1].setCookie[1]>>)
                   ELSE Null,
        err |-> NoError]
  ELSE [ok |-> FALSE, res |-> "", cookie |-> Null, err |-> HttpError(c.resp[1].status)]

\* the settlement of performRequest's promise on 'end'
OnEnd(c) ==
  IF c.resp[1].status = 200
  THEN [ok |-> TRUE, res |-> Concat(c.chunks),
        cookie |-> IF c.resp[1].setCookie # <<>> THEN S(<<c.resp[1].setCookie[1]>>)
                   ELSE Null,
        err |-> NoError]
  ELSE [ok |-> FALSE, res |-> "", cookie |-> Null, err |-> HttpError(c.resp[1].status)]

Rejection(e) == [ok |-> FALSE, res |-> "", cookie |-> Null, err |-> e]

\* Resume with a body that fails to parse answered by an empty result
ResumeDefaulting(c, o) ==
  LET kind == FuncTable[HandleTable[c.method].callee].kind
  IN IF ~o.ok THEN [c EXCEPT !.st = "rejected", !.err = o.err]
     ELSE IF kind = "none" THEN [c EXCEPT !.st = "resolved"]
     ELSE IF kind = "text" THEN [c EXCEPT !.st = "resolved", !.val = <<o.res>>]
     ELSE IF JSONParse(o.res).ok
          THEN [c EXCEPT !.st = "resolved", !.val = <<JSONParse(o.res).val>>]
          ELSE [c EXCEPT !.st = "resolved", !.val = <<<<>>>>]

\* Resume with the body of a textual method decoded as JSON too
ResumeParsing(c, o) ==
  LET kind == FuncTable[HandleTable[c.method].callee].kind
  IN IF ~o.ok THEN [c EXCEPT !.st = "rejected", !.err = o.err]
     ELSE IF kind = "none" THEN [c EXCEPT !.st = "resolved"]
     ELSE IF JSONParse(o.res).ok
          THEN [c EXCEPT !.st = "resolved", !.val = <<JSONParse(o.res).val>>]
          ELSE [c EXCEPT !.st = "rejected",
                         !.err = NewError("SyntaxError", "Unexpected token in JSON")]

\* a request function resumes after `await performRequest(...)`
Resume(c, o) ==
  LET kind == FuncTable[HandleTable[c.method].callee].kind
  IN IF ~o.ok THEN [c EXCEPT !.st = "rejected", !.err = o.err]
     ELSE IF kind = "none" THEN [c EXCEPT !.st = "resolved"]
     ELSE IF kind = "text" THEN [c EXCEPT !.st = "resolved", !.val = <<o.res>>]
     ELSE IF JSONParse(o.res).ok
          THEN [c EXCEPT !.st = "resolved", !.val = <<JSONParse(o.res).val>>]
          ELSE [c EXCEPT !.st = "rejected",
                         !.err = NewError("SyntaxError", "Unexpected token in JSON")]

\* ResumeConnect returning the handle also when the login request failed
ResumeConnectLenient(c, o) ==
  /\ handle' = <<[options |-> ConnectOptions(ParseURL(c.args[1].s)),
                  cookie |-> o.cookie]>>
  /\ calls' = [calls EXCEPT ![0] = [c EXCEPT !.st = "resolved"]]
  /\ UNCHANGED console

\* connect resumes after `await performRequest(...)`: it returns the handle
\* or logs the error and throws
ResumeConnect(c, o) ==
  IF o.ok
  THEN /\ handle' = <<[options |-> ConnectOptions(ParseURL(c.args[1].s)),
                       cookie |-> o.cookie]>>
       /\ calls' = [calls EXCEPT ![0] = [c EXCEPT !.st = "resolved"]]
       /\ UNCHANGED console
  ELSE /\ console' = Append(console, o.err)
       /\ calls' = [calls EXCEPT ![0] = [c EXCEPT !.st = "rejected",
                                         !.err = LoginFailed(Flat(c.args[2].s))]]
       /\ UNCHANGED handle

\* Settle with the handle's cookie replaced by the one a capability response carries
SettleRefreshing(i, c, o) ==
  IF calls[i].st # "pending"
  THEN calls' = [calls EXCEPT ![i] = c] /\ UNCHANGED <<handle, console>>
  ELSE IF i = 0 THEN ResumeConnect(c, o)
  ELSE /\ calls' = [calls EXCEPT ![i] = Resume(c, o)]
       /\ handle' = IF o.ok /\ o.cookie # Null
                    THEN <<[handle[1] EXCEPT !.cookie = o.cookie]>> ELSE handle
       /\ UNCHANGED console

\* Settle with a promise that takes a new outcome after it has settled
SettleAgain(i, c, o) ==
  IF i = 0 THEN ResumeConnect(c, o)
  ELSE calls' = [calls EXCEPT ![i] = Resume(c, o)] /\ UNCHANGED <<handle, console>>

\* Settle with the event recorded and the promise left as it is
SettleLost(i, c, o) ==
  calls' = [calls EXCEPT ![i] = c] /\ UNCHANGED <<handle, console>>

\* the promise of calls[i]'s request settles with o, unless it already has
Settle(i, c, o) ==
  IF calls[i].st # "pending"
  THEN calls' = [calls EXCEPT ![i] = c] /\ UNCHANGED <<handle, console>>
  ELSE IF i = 0 THEN ResumeConnect(c, o)
  ELSE calls' = [calls EXCEPT ![i] = Resume(c, o)] /\ UNCHANGED <<handle, console>>

\* the record of a call that has just run up to its first await
Started(m, args, r) ==
  IF r.err # <<>>
  THEN [IdleCall EXCEPT !.st = "rejected", !.method = m, !.args = args, !.err = r.err[1]]
  ELSE [IdleCall EXCEPT !.st = "pending", !.method = m, !.args = args, !.reqs = r.req]

-----------------------------------------------------------------------------
(* Actions *)

\* exports.connect(host, username, password), up to its await
Connect(host, username, password) ==
  /\ calls[0].st = "idle"
  /\ LET url == ParseURL(host)
         args == <<S(host), S(<<username>>), S(<<password>>)>>
     IN IF ~url.ok
        THEN /\ calls' = [calls EXCEPT ![0] =
                            Started("connect", args,
                                    Thrown(NewError("TypeError", "Invalid URL")))]
             /\ UNCHANGED console
        ELSE LET r == performRequest(O(ConnectOptions(url)), Null, "/auth/login",
                                     <<[key |-> "username", val |-> S(<<username>>)],
                                       [key |-> "password", val |-> S(<<password>>)]>>)
             IN IF r.err # <<>>
                THEN /\ console' = Append(console, r.err[1])
                     /\ calls' = [calls EXCEPT ![0] =
                                    Started("connect", args, Thrown(LoginFailed(username)))]
                ELSE /\ calls' = [calls EXCEPT ![0] = Started("connect", args, r)]
                     /\ UNCHANGED console
  /\ UNCHANGED handle

\* a method of the handle is called, up to its await
Invoke(i, m, args) ==
  /\ i >= 1
  /\ handle # <<>>
  /\ calls[i].st = "idle"
  /\ calls' = [calls EXCEPT ![i] = Started(m, args, RunMethod(m, args, handle[1]))]
  /\ UNCHANGED <<handle, console>>

\* the response callback of protocol[...].request runs
Response(i, status, setCookie) ==
  /\ calls[i].reqs # <<>>
  /\ calls[i].resp = <<>>
  /\ calls[i].errored = <<>>
  /\ calls' = [calls EXCEPT ![i].resp = <<[status |-> status, setCookie |-> setCookie]>>]
  /\ UNCHANGED <<handle, console>>

\* res.on('data', chunk => data.push(chunk))
Data(i, chunk) ==
  /\ calls[i].resp # <<>>
  /\ ~calls[i].ended
  /\ calls[i].errored = <<>>
  /\ Len(calls[i].chunks) < MaxChunks
  /\ calls' = [calls EXCEPT ![i].chunks = Append(@, chunk)]
  /\ UNCHANGED <<handle, console>>

\* res.on('end', ...)
End(i) ==
  /\ calls[i].resp # <<>>
  /\ ~calls[i].ended
  /\ calls[i].errored = <<>>
  /\ Settle(i, [calls[i] EXCEPT !.ended = TRUE], OnEnd(calls[i]))

\* req.on('error', ...)
Error(i, e) ==
  /\ calls[i].reqs # <<>>
  /\ calls[i].errored = <<>>
  /\ Settle(i, [calls[i] EXCEPT !.errored = <<e>>], Rejection(OnError(e)))

\* the set-cookie headers the server may send to calls[i]
SetCookiesFor(i) == IF i = 0 THEN LoginSetCookies ELSE ReplySetCookies

\* Spec: one capability call of any method on the handle of one connect
Next ==
  \/ \E host \in {<<"http", ":", "//", "localhost", ":", "8080">>,
                  <<"localhost", ":", "8080">>} :
       Connect(host, "admin", "secret")
  \/ \E m \in Methods : Invoke(1, m, DefaultArgs(m))
  \/ \E i \in 0..1, status \in Statuses : \E sc \in SetCookiesFor(i) : Response(i, status, sc)
  \/ \E chunk \in Chunks : Data(1, chunk)
  \/ \E i \in 0..1 : End(i)
  \/ \E e \in TransportErrors : calls[0].st = "pending" /\ Error(0, e)
  \/ \E e \in TransportErrors : Error(1, e)

Spec == Init /\ [][Next]_vars

\* SpecLogin: connect with every host and username, the whole transport of
\* the login request, then one call of a method without parameters
NextLogin ==
  \/ \E host \in Hosts, u \in Usernames, p \in Passwords : Connect(host, u, p)
  \/ \E status \in Statuses, sc \in LoginSetCookies : Response(0, status, sc)
  \/ \E chunk \in Chunks : Data(0, chunk)
  \/ End(0)
  \/ \E e \in TransportErrors : Error(0, e)
  \/ Invoke(1, "appVersion", <<>>)

SpecLogin == Init /\ [][NextLogin]_vars

\* SpecConc: concurrent capability calls on one handle
ConcMethods == {"appVersion", "pauseTorrents"}

NextConc ==
  \/ Connect(<<"http", ":", "//", "localhost", ":", "8080">>, "admin", "secret")
  \/ \E i \in 1..MaxCalls, m \in ConcMethods :
       /\ i = 1 \/ calls[i - 1].st # "idle"
       /\ Invoke(i, m, DefaultArgs(m))
  \/ \E i \in Slots : \E sc \in SetCookiesFor(i) : Response(i, 200, sc)
  \/ \E i \in Slots \ {0} : Response(i, 403, <<>>)
  \/ \E i \in Slots \ {0} : Data(i, "[\"a1")
  \/ \E i \in Slots : End(i)
  \/ \E i \in Slots : calls[i].st = "pending" /\ Error(i, NewError("Error", "socket hang up"))

SpecConc == Init /\ [][NextConc]_vars

\* SpecMarshal: a connected handle whose methods are called with every
\* combination of argument values
Connected ==
  LET host == <<"http", ":", "//", "localhost", ":", "8080">>
      sent == Started("connect", <<S(host), S(<<"admin">>), S(<<"secret">>)>>,
                      performRequest(O(ConnectOptions(ParseURL(host))), Null, "/auth/login",
                                     <<[key |-> "username", val |-> S(<<"admin">>)],
                                       [key |-> "password", val |-> S(<<"secret">>)]>>))
  IN [sent EXCEPT !.st = "resolved", !.ended = TRUE,
                  !.resp = <<[status |-> 200, setCookie |-> <<"SID=abc123", "lang=en">>]>>]

InitMarshal ==
  /\ calls = [i \in Slots |-> IF i = 0 THEN Connected ELSE IdleCall]
  /\ handle = <<[options |-> ConnectOptions(ParseURL(Connected.args[1].s)),
                 cookie |-> S(<<"SID=abc123">>)]>>
  /\ console = <<>>

NextMarshal ==
  /\ calls[1].st = "idle"
  /\ \E m \in Methods :
    \E args \in [1..Len(HandleTable[m].params) -> ArgValues] : Invoke(1, m, args)

SpecMarshal == InitMarshal /\ [][NextMarshal]_vars

\* SpecEncode: a connected handle whose methods of at most two parameters are
\* called with every combination of strings that hold reserved characters
EncodeMethods == {m \in Methods : Len(HandleTable[m].params) <= 2}

NextEncode ==
  /\ calls[1].st = "idle"
  /\ \E m \in EncodeMethods :
       \E args \in [1..Len(HandleTable[m].params) -> EncodeValues] : Invoke(1, m, args)

SpecEncode == InitMarshal /\ [][NextEncode]_vars

\* SpecCategory: torrents is called on a connected handle with every
\* combination of null, empty and named arguments
NextCategory ==
  /\ calls[1].st = "idle"
  /\ \E args \in [1..Len(HandleTable["torrents"].params) -> CategoryValues] :
       Invoke(1, "torrents", args)

SpecCategory == InitMarshal /\ [][NextCategory]_vars

\* SpecStruct: the methods of at most two parameters are called on a connected
\* handle with every combination of strings that hold structural characters
NextStruct ==
  /\ calls[1].st = "idle"
  /\ \E m \in EncodeMethods :
       \E args \in [1..Len(HandleTable[m].params) -> StructValues] : Invoke(1, m, args)

SpecStruct == InitMarshal /\ [][NextStruct]_vars

\* SpecFair: connect and one call of a textual or a structured method, over a
\* transport that delivers, for every request it was given, the end of the
\* response or an error
FairMethods == {"appVersion", "buildInfo"}

NextFair ==
  \/ Connect(<<"http", ":", "//", "localhost", ":", "8080">>, "admin", "secret")
  \/ \E m \in FairMethods : Invoke(1, m, DefaultArgs(m))
  \/ \E i \in 0..1, status \in Statuses : \E sc \in SetCookiesFor(i) : Response(i, status, sc)
  \/ \E i \in 0..1 : Data(i, "v4.1.3")
  \/ \E i \in 0..1 : End(i)
  \/ \E i \in 0..1, e \in TransportErrors : Error(i, e)

\* the transport ends the response of, or fails, the pending request of calls[i]
Deliver(i) ==
  /\ calls[i].st = "pending"
  /\ (End(i) \/ \E e \in TransportErrors : Error(i, e))

SpecFair == Init /\ [][NextFair]_vars /\ \A i \in 0..1 : WF_vars(Deliver(i))

-----------------------------------------------------------------------------
(* Properties *)

CapCalls == 1..MaxCalls

\* the fixed path of a handle method
FixedPath(m) == ENDPOINT \o FuncTable[HandleTable[m].callee].path

\* the first cookie of the login response's Set-Cookie header, null without one
LoginToken ==
  IF calls[0].resp[1].setCookie = <<>> THEN Null
  ELSE S(<<calls[0].resp[1].setCookie[1]>>)

\* C1: every capability call that has been made has put exactly one request on
\* the wire: a POST to the method's fixed path under /api/v2 that carries the
\* handle's session cookie.
C1_ExactlyOnePost ==
  \A i \in CapCalls :
    calls[i].st # "idle" =>
      /\ Len(calls[i].reqs) = 1
      /\ calls[i].reqs[1].options.method = "POST"
      /\ calls[i].reqs[1].options.path = FixedPath(calls[i].method)
      /\ calls[i].reqs[1].options.headers.Cookie = handle[1].cookie

C3_HandleOnlyWithCookie ==
  handle # <<>> =>
    /\ calls[0].resp[1].status = 200
    /\ calls[0].resp[1].setCookie # <<>>
    /\ handle[1].cookie = S(<<calls[0].resp[1].setCookie[1]>>)

C5_AuthErrorNamesUser ==
  calls[0].st = "rejected" =>
    /\ calls[0].err.name = "Error"
    /\ calls[0].err.message
         = "Login failed with username: " \o Flat(calls[0].args[2].s)

\* the error performRequest rejected the login with
LoginCause ==
  IF calls[0].ended THEN HttpError(calls[0].resp[1].status) ELSE calls[0].errored[1]

\* C6: when connect has failed on the login request, the error it rejected
\* with wraps the underlying HTTP-status or transport error as its cause.
C6_WrapsCause ==
  (calls[0].st = "rejected" /\ calls[0].reqs # <<>>) =>
    calls[0].err.cause = <<LoginCause>>

\* C7: the handle's session token stays the one obtained at login, and every
\* request of every capability call attaches it, whatever Set-Cookie headers
\* the responses to concurrent calls carry.
C7_TokenNeverMutated ==
  handle # <<>> =>
    /\ handle[1].cookie = LoginToken
    /\ \A i \in CapCalls : \A k \in 1..Len(calls[i].reqs) :
         calls[i].reqs[k].options.headers.Cookie = LoginToken

\* one call has resolved on a response that carries another cookie while a
\* second call's request, carrying the login token, is in flight
C7_Witness ==
  /\ handle # <<>>
  /\ handle[1].cookie = S(<<"SID=abc123">>)
  /\ calls[1].st = "resolved"
  /\ calls[1].resp[1].setCookie = <<"SID=zzz">>
  /\ calls[2].st = "pending"
  /\ calls[2].reqs[1].options.headers.Cookie = S(<<"SID=abc123">>)

\* C8: a connect call has put exactly one request on the wire, to
\* /api/v2/auth/login, whose body carries username and password as form
\* parameters and which attaches no cookie.
C8_OneLoginRequest ==
  calls[0].st # "idle" =>
    /\ Len(calls[0].reqs) = 1
    /\ calls[0].reqs[1].options.path = "/api/v2/auth/login"
    /\ LET form == "username=" \o Flat(calls[0].args[2].s)
                   \o "&password=" \o Flat(calls[0].args[3].s)
       IN calls[0].reqs[1].body \in {form, form \o "&"}
    /\ calls[0].reqs[1].options.headers.Cookie = Null

\* C9: a capability call whose request has emitted an error before its
\* response ended has rejected with exactly that error.
C9_TransportErrorUnmodified ==
  \A i \in CapCalls :
    (calls[i].errored # <<>> /\ ~calls[i].ended) =>
      /\ calls[i].st = "rejected"
      /\ calls[i].err = calls[i].errored[1]

\* a call has been rejected by an error emitted after the response head
C9_Witness ==
  /\ calls[1].errored # <<>>
  /\ ~calls[1].ended
  /\ calls[1].resp # <<>>
  /\ calls[1].resp[1].status = 200
  /\ calls[1].st = "rejected"

\* the atoms of a text
Atoms(text) == {text[k] : k \in 1..Len(text)}

\* the build entries of the request function a call runs, and the value the
\* function has for an entry's variable
EntriesOf(c) == FuncTable[HandleTable[c.method].callee].build

ValueOf(c, e) ==
  Lookup(HandleTable[c.method].callee, WiredArgs(c.method, c.args, handle[1]), e.var)

SuppliedOf(c) ==
  LET f == HandleTable[c.method].callee
  IN SelectSeq(BuildParameters(f, WiredArgs(c.method, c.args, handle[1]),
                               FuncTable[f].build).props,
               LAMBDA p : p.val.t # "undefined")

RECURSIVE FormEncode(_)
\* name=value for each entry, joined with '&'
FormEncode(props) ==
  IF props = <<>> THEN <<>>
  ELSE <<Head(props).key, "=">> \o ToStr(Head(props).val)
       \o (IF Tail(props) = <<>> THEN <<>> ELSE <<"&">> \o FormEncode(Tail(props)))

\* C11: the body of every request is exactly the entries its method supplied,
\* each as name=value, joined with '&': nothing leads or trails, no quote, colon
\* or comma delimits, and no entries give the empty body.
C11_FormEncoded ==
  \A i \in CapCalls :
    calls[i].reqs # <<>> =>
      calls[i].reqs[1].body = Flat(FormEncode(SuppliedOf(calls[i])))

\* text occurs in data as name=text
HasPair(data, name, text) ==
  \E k \in 1..Len(data) :
    /\ k + 1 + Len(text) <= Len(data)
    /\ SubSeq(data, k, k + 1 + Len(text)) = <<name, "=">> \o text

\* C12: a parameter whose value is a number or a boolean is in the body as
\* name=<decimal>, name=true or name=false.
C12_ScalarsCanonical ==
  \A i \in CapCalls :
    calls[i].reqs # <<>> =>
      \A k \in 1..Len(EntriesOf(calls[i])) :
        LET e == EntriesOf(calls[i])[k]
            v == ValueOf(calls[i], e)
        IN (~e.cond /\ v.t \in {"number", "boolean"})
           => HasPair(calls[i].reqs[1].data, e.key, ToStr(v))


RECURSIVE SplitOn(_, _)
\* the pieces of text between the occurrences of the atom sep
SplitOn(text, sep) ==
  LET i == IndexFrom(text, sep, 1)
  IN IF i = 0 THEN <<text>>
     ELSE <<SubSeq(text, 1, i - 1)>> \o SplitOn(SubSeq(text, i + 1, Len(text)), sep)

\* percent-decoding: each escape sequence back to its character
PercentDecode(text) ==
  [k \in 1..Len(text) |->
     IF \E ch \in DOMAIN URIEscape : URIEscape[ch] = text[k]
     THEN CHOOSE ch \in DOMAIN URIEscape : URIEscape[ch] = text[k]
     ELSE text[k]]

\* form-decoding of a body, as the receiver of application/x-www-form-urlencoded
\* does it: split at '&', split each piece at its first '=', percent-decode
FormDecode(data) ==
  LET pieces == SplitOn(data, "&")
  IN {LET piece == pieces[k]
          eq == IndexFrom(piece, "=", 1)
      IN IF eq = 0 THEN [key |-> Flat(PercentDecode(piece)), val |-> ""]
         ELSE [key |-> Flat(PercentDecode(SubSeq(piece, 1, eq - 1))),
               val |-> Flat(PercentDecode(SubSeq(piece, eq + 1, Len(piece))))] :
      k \in {j \in 1..Len(pieces) : pieces[j] # <<>>}}

\* C13: form-decoding the body of a request gives, under each parameter's
\* name, the string the caller passed for it, whatever reserved characters
\* ('&', '=', '%', a space, a character outside ASCII) the string holds.
C13_ReservedRoundTrip ==
  \A i \in CapCalls :
    calls[i].reqs # <<>> =>
      \A k \in 1..Len(EntriesOf(calls[i])) :
        LET e == EntriesOf(calls[i])[k]
            v == ValueOf(calls[i], e)
        IN v.t = "string"
           => [key |-> e.key, val |-> Flat(v.s)] \in FormDecode(calls[i].reqs[1].data)

\* C14: form-decoding the body of a request gives, under its name, the
\* canonical text of every parameter whose value is a truthy scalar without
\* reserved characters.
C14_ScalarRoundTrip ==
  \A i \in CapCalls :
    calls[i].reqs # <<>> =>
      \A k \in 1..Len(EntriesOf(calls[i])) :
        LET e == EntriesOf(calls[i])[k]
            v == ValueOf(calls[i], e)
        IN (v.t \in {"string", "number", "boolean"} /\ Truthy(v))
           => [key |-> e.key, val |-> Flat(ToStr(v))]
                \in FormDecode(calls[i].reqs[1].data)


\* the host identifier connect was called with, and whether it names a scheme
HostGiven == calls[0].args[1].s

HasScheme(host) == Len(host) >= 3 /\ host[2] = ":" /\ host[3] = "//"

\* the host name and the explicit port ("" when none) of a host identifier
NameGiven(host) == IF HasScheme(host) THEN host[4] ELSE host[1]

PortGiven(host) ==
  LET rest == IF HasScheme(host) THEN SubSeq(host, 5, Len(host)) ELSE Tail(host)
  IN IF Len(rest) = 2 /\ rest[1] = ":" THEN rest[2] ELSE ""

\* C15: a connect call whose host identifier omits the scheme has sent its
\* login request to that host, and has not failed unless the transport or the
\* server made it fail.
C15_SchemelessHostAccepted ==
  (calls[0].st # "idle" /\ ~HasScheme(HostGiven)) =>
    /\ Len(calls[0].reqs) = 1
    /\ calls[0].reqs[1].options.hostname = S(<<NameGiven(HostGiven)>>)
    /\ (calls[0].st = "rejected" =>
          \/ calls[0].errored # <<>>
          \/ (calls[0].resp # <<>> /\ calls[0].resp[1].status # 200))

\* the requests sent so far, by connect and by the handle's methods
AllRequests ==
  {calls[i].reqs[k] : i \in {j \in Slots : calls[j].reqs # <<>>}, k \in {1}}

\* C16: every request goes to the port the host identifier gives explicitly,
\* whatever its value, and otherwise to 443 for https and to 80; scheme, host
\* and port are the same for every request.
C16_PortResolved ==
  (calls[0].st # "idle" /\ HasScheme(HostGiven)) =>
    \A r \in AllRequests :
      /\ r.options.protocol = S(<<HostGiven[1] \o ":">>)
      /\ r.options.hostname = S(<<NameGiven(HostGiven)>>)
      /\ r.options.port =
           IF PortGiven(HostGiven) # "" THEN N(PortNumber[PortGiven(HostGiven)])
           ELSE IF HostGiven[1] = "https" THEN N(443) ELSE N(80)

\* the origin of a request's target: the port suffix is left out exactly when
\* the port is the default of the scheme
TargetOrigin(options) ==
  Flat(options.protocol.s) \o "//" \o Flat(options.hostname.s)
  \o (IF \/ (options.protocol = S(<<"http:">>) /\ options.port = N(80))
         \/ (options.protocol = S(<<"https:">>) /\ options.port = N(443))
      THEN "" ELSE ":" \o ToString(options.port.n))

\* C17: the Referer and the Origin of every request are the origin of its
\* target.
C17_OriginHeaders ==
  \A r \in AllRequests :
    /\ r.options.headers.Referer = TargetOrigin(r.options)
    /\ r.options.headers.Origin = TargetOrigin(r.options)


\* C18: the Content-Length of every request is the number of bytes of the
\* body written, also when the body holds characters outside ASCII.
C18_ContentLengthInBytes ==
  \A r \in AllRequests : r.options.headers.ContentLength = ByteLength(r.data)

\* whether the method of a call returns the JSON decoding of the body
Structured(c) ==
  c.method \in Methods /\ FuncTable[HandleTable[c.method].callee].kind = "json"

\* a call whose response was a 200 that has ended
Answered200(c) == c.ended /\ c.resp[1].status = 200

\* C19: a structured-return call answered by a 200 whose body arrived as the
\* chunks ["a1 and b2c3"], in that order, has resolved with the decoding of
\* ["a1b2c3"]: the sequence of the one string a1b2c3.
C19_JSONOfWholeBody ==
  \A i \in CapCalls :
    (/\ Structured(calls[i])
     /\ Answered200(calls[i])
     /\ calls[i].chunks = <<"[\"a1", "b2c3\"]">>)
    => /\ calls[i].st = "resolved"
       /\ calls[i].val = << <<"a1b2c3">> >>

\* the list-items call has resolved on such a response
C19_Witness ==
  /\ calls[1].method = "torrents"
  /\ Answered200(calls[1])
  /\ calls[1].chunks = <<"[\"a1", "b2c3\"]">>
  /\ calls[1].st = "resolved"
  /\ calls[1].val = << <<"a1b2c3">> >>

\* C20: a structured-return call answered by a 200 whose body is not
\* well-formed JSON has rejected with the decode error, has no value and has
\* sent one request only.
C20_DecodeErrorSurfaced ==
  \A i \in CapCalls :
    (/\ Structured(calls[i])
     /\ Answered200(calls[i])
     /\ calls[i].chunks # <<"[\"a1", "b2c3\"]">>)
    => /\ calls[i].st = "rejected"
       /\ calls[i].err.name = "SyntaxError"
       /\ calls[i].val = <<>>
       /\ Len(calls[i].reqs) = 1

\* buildInfo has rejected on a 200 whose body broke off after its first chunk
C20_Witness ==
  /\ calls[1].method = "buildInfo"
  /\ Answered200(calls[1])
  /\ calls[1].chunks = <<"[\"a1">>
  /\ calls[1].st = "rejected"
  /\ calls[1].err.name = "SyntaxError"


\* the methods whose declared return is textual
Textual(c) == c.method \in {"appVersion", "apiVersion", "defaultSavePath"}

RECURSIVE BodyText(_)
\* the text of a body that arrived as chunks, the earliest first
BodyText(chunks) ==
  IF chunks = <<>> THEN ""
  ELSE BodyText(SubSeq(chunks, 1, Len(chunks) - 1)) \o chunks[Len(chunks)]

\* C21: a call of a textual method answered by a 200 has resolved with the
\* text of the response body, unchanged.
C21_RawTextReturned ==
  \A i \in CapCalls :
    (Textual(calls[i]) /\ Answered200(calls[i]))
    => /\ calls[i].st = "resolved"
       /\ calls[i].val = <<BodyText(calls[i].chunks)>>

\* appVersion has resolved with the version string the server sent
C21_Witness ==
  /\ calls[1].method = "appVersion"
  /\ Answered200(calls[1])
  /\ calls[1].chunks = <<"v4.1.3">>
  /\ calls[1].st = "resolved"
  /\ calls[1].val = <<"v4.1.3">>


\* a call has sent exactly one request, a POST to path under /api/v2
OnePostTo(c, path) ==
  /\ Len(c.reqs) = 1
  /\ c.reqs[1].options.method = "POST"
  /\ c.reqs[1].options.path = ENDPOINT \o path

\* the k-th argument of the caller is in the body of the call's request under name
SendsArg(c, name, k) == HasPair(c.reqs[1].data, name, c.args[k].s)

\* C22: a setShareLimit call has sent one POST to /torrents/setShareLimits
\* whose hashes, ratioLimit and seedingTimeLimit are the caller's first,
\* second and third argument.
C22_ShareLimitWired ==
  \A i \in CapCalls :
    calls[i].method = "setShareLimit" =>
      /\ OnePostTo(calls[i], "/torrents/setShareLimits")
      /\ SendsArg(calls[i], "hashes", 1)
      /\ SendsArg(calls[i], "ratioLimit", 2)
      /\ SendsArg(calls[i], "seedingTimeLimit", 3)

\* C23: a rename call has sent one POST to /torrents/rename on the handle's
\* host, with the session cookie and the caller's hash and name, and has
\* resolved with no value once the server has answered 200.
C23_RenameWired ==
  \A i \in CapCalls :
    calls[i].method = "rename" =>
      /\ OnePostTo(calls[i], "/torrents/rename")
      /\ calls[i].reqs[1].options.hostname = handle[1].options.hostname
      /\ calls[i].reqs[1].options.headers.Cookie = handle[1].cookie
      /\ SendsArg(calls[i], "hash", 1)
      /\ SendsArg(calls[i], "name", 2)
      /\ (Answered200(calls[i]) => calls[i].st = "resolved" /\ calls[i].val = <<>>)

\* C24: an addTags or removeTags call has sent one POST to its path whose
\* hashes is the caller's first argument, and has resolved with no value once
\* the server has answered 200.
C24_TagsWired ==
  \A i \in CapCalls :
    calls[i].method \in {"addTags", "removeTags"} =>
      /\ OnePostTo(calls[i], "/torrents/" \o calls[i].method)
      /\ SendsArg(calls[i], "hashes", 1)
      /\ (Answered200(calls[i]) => calls[i].st = "resolved" /\ calls[i].val = <<>>)


\* C25: the request of a torrents call carries category with an empty value
\* when the caller passed the empty string ("without category"), and no
\* category at all when the caller passed null ("any category").
C25_CategoryDistinguished ==
  \A i \in CapCalls :
    (calls[i].method = "torrents" /\ calls[i].reqs # <<>>) =>
      /\ calls[i].args[2] = S(<<>>) => HasPair(calls[i].reqs[1].data, "category", <<>>)
      /\ calls[i].args[2] = Null => "category" \notin Atoms(calls[i].reqs[1].data)


\* whether a value handed to plainify is a string that holds one of chars
Holds(v, chars) == v.t = "string" /\ Atoms(v.s) \cap chars # {}

C27_NoRequestBeforeLogin ==
  /\ \A i \in CapCalls :
       calls[i].st # "idle" =>
         /\ calls[0].st = "resolved"
         /\ calls[0].ended
         /\ calls[0].resp[1].status = 200
  /\ calls[0].st = "rejected" =>
       /\ Len(calls[0].reqs) <= 1
       /\ \A i \in CapCalls : calls[i].st = "idle" /\ calls[i].reqs = <<>>

\* a capability request is on the wire after a login answered 200
C27_Witness ==
  /\ calls[0].st = "resolved"
  /\ calls[0].resp[1].status = 200
  /\ calls[1].st = "pending"
  /\ Len(calls[1].reqs) = 1


\* what the response and the events of a call's own request determine: the
\* state of its promise, the value it resolved with, the error's message
OwnOutcome(c) ==
  IF c.ended
  THEN IF c.resp[1].status # 200
       THEN [st |-> "rejected", val |-> <<>>,
             message |-> "HTTP request error: " \o ToString(c.resp[1].status)]
       ELSE IF Textual(c)
            THEN [st |-> "resolved", val |-> <<BodyText(c.chunks)>>, message |-> ""]
            ELSE [st |-> "resolved", val |-> <<>>, message |-> ""]
  ELSE IF c.errored # <<>>
       THEN [st |-> "rejected", val |-> <<>>, message |-> c.errored[1].message]
       ELSE [st |-> "pending", val |-> <<>>, message |-> ""]

\* C28: whatever the interleaving of the events of concurrent calls, each
\* call's outcome is the one its own status, its own chunks in arrival order
\* and its own error determine.
C28_CallsIsolated ==
  \A i \in CapCalls :
    calls[i].reqs # <<>> =>
      [st |-> calls[i].st, val |-> calls[i].val, message |-> calls[i].err.message]
        = OwnOutcome(calls[i])

\* the second call has resolved with its own body while the first, which had
\* received a chunk, was rejected for its status
C28_Witness ==
  /\ calls[1].st = "rejected"
  /\ calls[1].ended
  /\ calls[1].resp[1].status = 403
  /\ calls[1].chunks = <<"[\"a1">>
  /\ calls[2].method = "appVersion"
  /\ calls[2].st = "resolved"
  /\ calls[2].val = <<"">>


\* the events of a call's request in a step: the end of its response, an error
EndsNow(i) == calls'[i].ended /\ ~calls[i].ended

ErrorsNow(i) == calls'[i].errored # <<>> /\ calls[i].errored = <<>>

\* C29: in every step, a call that has settled keeps its outcome; a pending
\* call settles only in a step where its response ends or its request emits an
\* error; a status other than 200 rejects it in the step of the end only; and
\* an error emitted before the end, after a 200 header too, rejects it.
C29_SettlesOnce ==
  [][\A i \in Slots :
       /\ calls[i].st \in {"resolved", "rejected"} =>
            /\ calls'[i].st = calls[i].st
            /\ calls'[i].val = calls[i].val
            /\ calls'[i].err = calls[i].err
       /\ (calls[i].st = "pending" /\ calls'[i].st # "pending") =>
            EndsNow(i) \/ ErrorsNow(i)
       /\ (/\ calls[i].st = "pending"
           /\ calls[i].resp # <<>>
           /\ calls[i].resp[1].status # 200
           /\ ~ErrorsNow(i)) =>
            (calls'[i].st = "rejected" <=> EndsNow(i))
       /\ (calls[i].st = "pending" /\ ErrorsNow(i)) => calls'[i].st = "rejected"
    ]_vars

\* a call that resolved at the end of its 200 response is still resolved after
\* its request has emitted an error
C29_Witness ==
  /\ calls[1].st = "resolved"
  /\ calls[1].ended
  /\ calls[1].resp[1].status = 200
  /\ calls[1].errored # <<>>


\* C30: over a transport that delivers the end of the response or an error for
\* every request, connect and every capability call that is pending
\* eventually resolves or rejects.
C30_EventuallySettles ==
  \A i \in 0..1 :
    (calls[i].st = "pending") ~> (calls[i].st \in {"resolved", "rejected"})

\* connect has resolved and the capability call, whose request was sent, has
\* settled
C30_Witness ==
  /\ calls[0].st = "resolved"
  /\ Len(calls[1].reqs) = 1
  /\ calls[1].st \in {"resolved", "rejected"}
  /\ calls[1].ended \/ calls[1].errored # <<>>


=============================================================================
